---- MODULE Spec2Model ----
(***************************************************************************)
(* Model of src/utils.py: the work partitioner split_size and the energy   *)
(* evaluator compute_potential_energy / compute_kinetic_energy /           *)
(* compute_energy.                                                         *)
(*                                                                         *)
(* Numbers.  The energy functions convert their inputs with astype(float)  *)
(* and compute in IEEE doubles.  A float is modelled as an exact rational  *)
(* n/d in lowest terms, or one of the special values +inf, -inf, nan that  *)
(* a division by zero produces (numpy warns and returns the special        *)
(* value, it does not raise).  Rounding, overflow and underflow of finite  *)
(* doubles are not modelled: every finite value of the model is exact.     *)
(***************************************************************************)
EXTENDS Integers, Sequences, FiniteSets, TLC

VARIABLES N_parts, N_chunks, worker, sizes, qidx,
          pos, vel, mass, G, perm, frame, called, ret, ret2

vars == <<N_parts, N_chunks, worker, sizes, qidx,
          pos, vel, mass, G, perm, frame, called, ret, ret2>>

partVars == <<N_parts, N_chunks, worker, sizes, qidx>>
inputVars == <<pos, vel, mass, G>>

----------------------------------------------------------------------------
(* Bounds of the model. *)

\* Largest particle count handed to split_size (besides the doctest's 1000).
MaxParts == 7
\* Largest chunk count handed to split_size (besides the doctest's 11).
MaxChunks == 4
\* Largest chunk index queried (besides the doctest's 10).
MaxIdx == 6
\* Longest particle arrays of the potential and kinetic energy checks.
MaxN == 3
\* Longest particle arrays where positions, velocities and masses all vary.
MaxLen == 2

\* The doctest of split_size: 1000 particles, 11 chunks, chunks 0 and 10.
DocParts == 1000
DocChunks == 11
DocLastIdx == 10
DocFirstSize == 91
DocLastSize == 90

----------------------------------------------------------------------------
(* Python values: a call returns a value or raises. *)

Return(v) == [st |-> "ok", val |-> v]
Raise(e) == [st |-> e, val |-> 0]
NotCalled == [st |-> "none", val |-> 0]

\* Python's // on ints: floor division, ZeroDivisionError is the caller's case.
FloorDiv(a, b) == IF b > 0 THEN a \div b ELSE (-a) \div (-b)

\* Python's % on ints: the result has the sign of the divisor.
PyMod(a, b) == a - b * FloorDiv(a, b)

\* int(bool)
BoolToInt(b) == IF b THEN 1 ELSE 0

----------------------------------------------------------------------------
(* Partitioner: split_size(N_parts, N_chunks, i). *)

\* Mutant: the remainder is dropped, every chunk gets the floor.
split_size_floor(Np, Nc, i) ==
    IF Nc = 0 THEN Raise("ZeroDivisionError")
    ELSE Return(FloorDiv(Np, Nc))

\* Mutant: the comparison is >= instead of >.
split_size_ge(Np, Nc, i) ==
    IF Nc = 0 THEN Raise("ZeroDivisionError")
    ELSE Return(FloorDiv(Np, Nc) + BoolToInt(PyMod(Np, Nc) >= i))

\* Mutant: the whole remainder goes to chunk 0.
split_size_first(Np, Nc, i) ==
    IF Nc = 0 THEN Raise("ZeroDivisionError")
    ELSE Return(FloorDiv(Np, Nc) + (IF i = 0 THEN PyMod(Np, Nc) ELSE 0))

\* Mutant: the chunk index wraps around the number of chunks.
split_size_wrap(Np, Nc, i) ==
    IF Nc = 0 THEN Raise("ZeroDivisionError")
    ELSE Return(FloorDiv(Np, Nc) + BoolToInt(PyMod(Np, Nc) > PyMod(i, Nc)))

\* Mutant: zero chunks are answered with a default of 0 instead of a fault.
split_size_default(Np, Nc, i) ==
    IF Nc = 0 THEN Return(0)
    ELSE Return(FloorDiv(Np, Nc) + BoolToInt(PyMod(Np, Nc) > i))

\* return (N_parts // N_chunks) + int((N_parts % N_chunks) > i)
\* N_parts // 0 raises ZeroDivisionError before anything else is evaluated.
split_size(Np, Nc, i) ==
    IF Nc = 0 THEN Raise("ZeroDivisionError")
    ELSE Return(FloorDiv(Np, Nc) + BoolToInt(PyMod(Np, Nc) > i))

PartsSet == (-1..MaxParts) \cup {DocParts}
ChunksSet == (-1..MaxChunks) \cup {DocChunks}
IdxSet == (-1..MaxIdx) \cup {DocLastIdx}

RECURSIVE SumSeq(_)
SumSeq(s) == IF s = <<>> THEN 0 ELSE s[1] + SumSeq(Tail(s))

EnergyIdle ==
    /\ pos = <<>> /\ vel = <<>> /\ mass = <<>> /\ G = 1
    /\ perm = <<>> /\ frame = [pc |-> "idle"] /\ called = "none"
    /\ ret2 = NotCalled

Init ==
    /\ N_parts \in PartsSet
    /\ N_chunks \in ChunksSet
    /\ worker = 0
    /\ sizes = <<>>
    /\ qidx = 0
    /\ ret = NotCalled
    /\ EnergyIdle

\* The scheduler takes the next worker's chunk size: split_size is called once
\* per chunk index 0 .. N_chunks-1, in order, with the same (N_parts, N_chunks).
Assign ==
    /\ worker < N_chunks
    /\ sizes' = Append(sizes, split_size(N_parts, N_chunks, worker).val)
    /\ worker' = worker + 1
    /\ UNCHANGED <<N_parts, N_chunks, qidx, ret>>
    /\ UNCHANGED <<pos, vel, mass, G, perm, frame, called, ret2>>

\* One call split_size(N_parts, N_chunks, i) with any index i.
Query ==
    \E i \in IdxSet :
        /\ qidx' = i
        /\ ret' = split_size(N_parts, N_chunks, i)
        /\ UNCHANGED <<N_parts, N_chunks, worker, sizes>>
        /\ UNCHANGED <<pos, vel, mass, G, perm, frame, called, ret2>>

Next == Assign \/ Query

Spec == Init /\ [][Next]_vars

----------------------------------------------------------------------------
(* Claims about the partitioner, checked under Spec. *)

\* The preconditions the partitioner's contract states: N_parts >= 0, N_chunks >= 1.
ValidRequest == N_parts >= 0 /\ N_chunks >= 1

\* C1 (partition completeness): for N_parts >= 0 and N_chunks >= 1, once the
\* scheduler has taken the sizes of all chunks 0 .. N_chunks-1 their sum is
\* exactly N_parts, and before that the sizes taken so far never exceed N_parts:
\* no particle is dropped or counted twice.
C1_PartitionComplete ==
    ValidRequest =>
        /\ SumSeq(sizes) <= N_parts
        /\ (worker = N_chunks => SumSeq(sizes) = N_parts)

C1_Witness ==
    /\ ValidRequest
    /\ worker = N_chunks
    /\ N_chunks >= 3
    /\ N_parts > N_chunks
    /\ PyMod(N_parts, N_chunks) > 0
    /\ SumSeq(sizes) = N_parts

\* C2 (partition fairness): for N_parts >= 0 and N_chunks >= 1, any two sizes
\* returned for valid chunk indices differ by at most 1.
C2_PartitionFair ==
    ValidRequest =>
        \A a \in DOMAIN sizes : \A b \in DOMAIN sizes : sizes[a] - sizes[b] <= 1

C2_Witness ==
    /\ ValidRequest
    /\ worker = N_chunks
    /\ N_chunks >= 3
    /\ \E a \in DOMAIN sizes : \E b \in DOMAIN sizes : sizes[a] - sizes[b] = 1

\* The size the specification's formula gives chunk i.
FormulaSize(i) ==
    IF i < N_parts % N_chunks THEN (N_parts \div N_chunks) + 1
    ELSE N_parts \div N_chunks

\* C3 (remainder distribution): for N_parts >= 0, N_chunks >= 1 and i >= 0,
\* split_size returns floor(N_parts / N_chunks) + 1 when i < N_parts mod N_chunks
\* and floor(N_parts / N_chunks) otherwise, so the first (N_parts mod N_chunks)
\* chunks in index order get the extra particle; 1000 parts over 11 chunks give
\* 91 for chunk 0 and 90 for chunk 10.
C3_RemainderDistribution ==
    ValidRequest =>
        /\ (ret.st # "none" /\ qidx >= 0) => ret = Return(FormulaSize(qidx))
        /\ \A k \in DOMAIN sizes : sizes[k] = FormulaSize(k - 1)
        /\ (N_parts = DocParts /\ N_chunks = DocChunks /\ ret.st # "none") =>
              /\ qidx = 0 => ret = Return(DocFirstSize)
              /\ qidx = DocLastIdx => ret = Return(DocLastSize)

C3_Witness ==
    /\ N_parts = DocParts
    /\ N_chunks = DocChunks
    /\ qidx = DocLastIdx
    /\ ret = Return(DocLastSize)
    /\ worker = N_chunks
    /\ sizes[1] = DocFirstSize

\* C4 (out-of-range chunk index): for N_parts >= 0, N_chunks >= 1 and any
\* chunk_index >= N_chunks, split_size raises nothing and returns
\* floor(N_parts / N_chunks), however large the index.
C4_OutOfRangeIndex ==
    (ValidRequest /\ ret.st # "none" /\ qidx >= N_chunks) =>
        ret = Return(N_parts \div N_chunks)

C4_Witness ==
    /\ ValidRequest
    /\ N_parts % N_chunks > 0
    /\ qidx >= N_chunks + 2
    /\ ret = Return(N_parts \div N_chunks)

\* C5 (zero chunks): with N_chunks = 0 every call of split_size, whatever
\* N_parts and the chunk index, ends in ZeroDivisionError; no count and no
\* default value is returned.
C5_ZeroChunksFault ==
    (N_chunks = 0 /\ ret.st # "none") => ret = Raise("ZeroDivisionError")

C5_Witness ==
    /\ N_chunks = 0
    /\ N_parts > 0
    /\ qidx > 0
    /\ ret.st = "ZeroDivisionError"

----------------------------------------------------------------------------
(* Floats: exact rationals n/d in lowest terms (d > 0), +inf, -inf and nan. *)

RECURSIVE GCD(_, _)
GCD(a, b) == IF b = 0 THEN a ELSE GCD(b, a % b)

Abs(x) == IF x < 0 THEN -x ELSE x

Sign(x) == IF x > 0 THEN 1 ELSE IF x < 0 THEN -1 ELSE 0

\* The finite float n/d, d # 0, in lowest terms with a positive denominator.
Fin(n, d) ==
    LET g == GCD(Abs(n), Abs(d))
    IN  [k |-> "fin", n |-> (Sign(d) * n) \div g, d |-> Abs(d) \div g]

Inf(s) == [k |-> "inf", n |-> s, d |-> 0]
NaN == [k |-> "nan", n |-> 0, d |-> 0]

\* astype(float) of an int.
FromInt(x) == Fin(x, 1)

Zero == FromInt(0)
Half == Fin(1, 2)

IsFinite(a) == a.k = "fin"
IsZero(a) == a.k = "fin" /\ a.n = 0

\* a >= 0 as IEEE compares: false for nan.
GeZero(a) == a.k # "nan" /\ a.n >= 0

FNeg(a) == [a EXCEPT !.n = -a.n]

\* IEEE addition: nan is absorbing, inf + (-inf) is nan.
FAdd(a, b) ==
    IF a.k = "nan" \/ b.k = "nan" THEN NaN
    ELSE IF a.k = "inf" /\ b.k = "inf" THEN (IF a.n = b.n THEN a ELSE NaN)
    ELSE IF a.k = "inf" THEN a
    ELSE IF b.k = "inf" THEN b
    ELSE Fin(a.n * b.d + b.n * a.d, a.d * b.d)

FSub(a, b) == FAdd(a, FNeg(b))

\* IEEE multiplication: inf * 0 is nan.
FMul(a, b) ==
    IF a.k = "nan" \/ b.k = "nan" THEN NaN
    ELSE IF a.k = "inf" \/ b.k = "inf"
         THEN (IF a.n = 0 \/ b.n = 0 THEN NaN ELSE Inf(Sign(a.n) * Sign(b.n)))
    ELSE Fin(a.n * b.n, a.d * b.d)

\* IEEE division as numpy does it: x / 0 is +inf or -inf by the sign of x,
\* 0 / 0 is nan; a warning is issued and nothing is raised.  The divisors of
\* the program are distances, so a zero divisor is +0.0.
FDiv(a, b) ==
    IF a.k = "nan" \/ b.k = "nan" THEN NaN
    ELSE IF b.k = "inf" THEN (IF a.k = "inf" THEN NaN ELSE Zero)
    ELSE IF b.n = 0 THEN (IF a.n = 0 THEN NaN ELSE Inf(Sign(a.n)))
    ELSE IF a.k = "inf" THEN Inf(a.n * Sign(b.n))
    ELSE Fin(a.n * b.d, a.d * b.n)

\* The integer whose square is n; the positions of the model keep every
\* squared distance a perfect square, so the root is exact.
ISqrt(n) == CHOOSE r \in 0..n : r * r = n

\* np.sqrt: nan below zero, +inf at +inf.
FSqrt(a) ==
    IF a.k = "nan" \/ a.n < 0 THEN NaN
    ELSE IF a.k = "inf" THEN a
    ELSE Fin(ISqrt(a.n), ISqrt(a.d))

----------------------------------------------------------------------------
(* Arrays: a particle array is a sequence, particle i of the code is s[i+1]. *)

At(s, i) == s[i + 1]

RECURSIVE FSum(_)
\* np.sum of a sequence of floats, 0.0 for the empty one.
FSum(s) == IF s = <<>> THEN Zero ELSE FAdd(FSum(SubSeq(s, 1, Len(s) - 1)), s[Len(s)])

\* astype(float) of a vector of ints.
ToFloats(v) == [c \in DOMAIN v |-> FromInt(v[c])]

\* (pos[i] - pos[j])**2, component by component.
SqDiff(p, q) == [c \in DOMAIN p |-> FMul(FSub(p[c], q[c]), FSub(p[c], q[c]))]

\* r = np.sqrt(np.sum((pos[i] - pos[j])**2))
Distance(p, q) == FSqrt(FSum(SqDiff(ToFloats(p), ToFloats(q))))

----------------------------------------------------------------------------
(* EnergyEvaluator. *)

RaiseF(e) == [st |-> e, val |-> [k |-> "none", n |-> 0, d |-> 0]]
NotCalledF == RaiseF("none")

\* Mutant: a coincident pair (r == 0) is skipped instead of divided by.
PairTerm_skip(p, m, g, i, j) ==
    LET r == Distance(At(p, i), At(p, j))
    IN  IF IsZero(r) THEN Zero
        ELSE FDiv(FMul(FMul(FromInt(g), FromInt(At(m, i))), FromInt(At(m, j))), r)

\* Mutant: the mass of particle i is used twice.
PairTerm_mii(p, m, g, i, j) ==
    LET r == Distance(At(p, i), At(p, j))
    IN  FDiv(FMul(FMul(FromInt(g), FromInt(At(m, i))), FromInt(At(m, i))), r)

\* G * mass[i] * mass[j] / r with r the distance of particles i and j.
PairTerm(p, m, g, i, j) ==
    LET r == Distance(At(p, i), At(p, j))
    IN  FDiv(FMul(FMul(FromInt(g), FromInt(At(m, i))), FromInt(At(m, j))), r)

\* Mutant: the inner loop starts at i instead of i + 1.
InnerStart_self(i) == i

\* range(i+1, N_part): the first value j takes in the inner loop.
InnerStart(i) == i + 1

\* The frame of compute_potential_energy when the loops start: U = 0.
\* visited records the pairs (i, j) for which U -= ... has run, in order.
LoopEntry == [pc |-> "outer", i |-> 0, j |-> 0, U |-> Zero, visited |-> <<>>]
IdleFrame == [pc |-> "idle", i |-> 0, j |-> 0, U |-> Zero, visited |-> <<>>]
CallFrame == [IdleFrame EXCEPT !.pc = "call"]

\* for i in range(N_part): with an i left, start the inner loop at i + 1;
\* with none left, leave the loops (return U).
OuterStep(p, f) ==
    IF f.i < Len(p)
    THEN [f EXCEPT !.pc = "inner", !.j = InnerStart(f.i)]
    ELSE [f EXCEPT !.pc = "done"]

\* for j in range(i+1, N_part): with a j left, run the body for it and take
\* the next j; with none left, take the next i.
InnerStep(p, m, g, f) ==
    IF f.j < Len(p)
    THEN [f EXCEPT !.U = FSub(f.U, PairTerm(p, m, g, f.i, f.j)),
                   !.visited = Append(f.visited, <<f.i, f.j>>),
                   !.j = f.j + 1]
    ELSE [f EXCEPT !.pc = "outer", !.i = f.i + 1]

RECURSIVE RunLoops(_, _, _, _)
\* The double loop run to its end from frame f.
RunLoops(p, m, g, f) ==
    IF f.pc = "done" THEN f
    ELSE IF f.pc = "outer" THEN RunLoops(p, m, g, OuterStep(p, f))
    ELSE RunLoops(p, m, g, InnerStep(p, m, g, f))

\* compute_potential_energy(pos, mass, G): the assertion on the shapes, then
\* the double loop.
compute_potential_energy(p, m, g) ==
    IF Len(m) # Len(p) THEN RaiseF("AssertionError")
    ELSE Return(RunLoops(p, m, g, LoopEntry).U)

\* Mutant: the velocity components are not squared.
KineticTerms_linear(v, m) ==
    LET N == Len(v)
        D == IF N = 0 THEN 0 ELSE Len(v[1])
    IN  [t \in 1 .. (D * N) |->
            LET c == ((t - 1) \div N) + 1
                i == ((t - 1) % N) + 1
            IN  FMul(FromInt(v[i][c]), FromInt(m[i]))]

\* vel.T**2. * mass, flattened: entry (c, i) is vel[i][c]**2 * mass[i].
KineticTerms(v, m) ==
    LET N == Len(v)
        D == IF N = 0 THEN 0 ELSE Len(v[1])
    IN  [t \in 1 .. (D * N) |->
            LET c == ((t - 1) \div N) + 1
                i == ((t - 1) % N) + 1
                x == FromInt(v[i][c])
            IN  FMul(FMul(x, x), FromInt(m[i]))]

\* Mutant: the shapes are not asserted; the common prefix is summed.
compute_kinetic_energy_unchecked(v, m) ==
    LET n == IF Len(v) < Len(m) THEN Len(v) ELSE Len(m)
    IN  Return(FMul(FSum(KineticTerms(SubSeq(v, 1, n), SubSeq(m, 1, n))), Half))

\* compute_kinetic_energy(vel, mass): the assertion on the shapes, then
\* np.sum(vel.T**2. * mass) * 0.5.
compute_kinetic_energy(v, m) ==
    IF Len(m) # Len(v) THEN RaiseF("AssertionError")
    ELSE Return(FMul(FSum(KineticTerms(v, m)), Half))

\* compute_energy(pos, vel, mass, G): the potential energy is computed first;
\* an exception of either call leaves compute_energy with nothing returned.
compute_energy(p, v, m, g) ==
    LET U == compute_potential_energy(p, m, g)
        K == compute_kinetic_energy(v, m)
    IN  IF U.st # "ok" THEN U
        ELSE IF K.st # "ok" THEN K
        ELSE Return(FAdd(U.val, K.val))

----------------------------------------------------------------------------
(* Inputs of the energy checks. *)

\* Positions: the corners of a 3-4-5 right triangle in the plane, so that
\* every distance is 0, 3, 4 or 5.
PosSet == {<<0, 0>>, <<3, 0>>, <<0, 4>>}
VelSet == {<<0, 0>>, <<1, -2>>, <<-3, 0>>}
\* Masses of the data model (non-negative), and with a negative one added.
MassSet == {0, 1, 2}
SignedMassSet == {-1, 0, 1, 2}
\* G is an argument of every call; the default 6.67e-11 is one positive value
\* among others and is not singled out.
GSet == {1, 2}

SeqsUpTo(S, n) == UNION {[1..k -> S] : k \in 0..n}

Perms(n) == {f \in [1..n -> 1..n] : \A a \in 1..n : \E b \in 1..n : f[b] = a}

\* The array s reordered by the permutation f.
Permuted(s, f) == [k \in DOMAIN s |-> s[f[k]]]

PartIdle ==
    /\ N_parts = 0 /\ N_chunks = 1 /\ worker = 0 /\ sizes = <<>> /\ qidx = 0

----------------------------------------------------------------------------
(* SpecLoop: compute_potential_energy step by step. *)

InitLoop ==
    /\ PartIdle
    /\ pos \in SeqsUpTo(PosSet, MaxN)
    /\ mass \in SeqsUpTo(MassSet, MaxN)
    /\ G \in GSet
    /\ vel = <<>> /\ perm = <<>>
    /\ frame = CallFrame
    /\ called = "potential"
    /\ ret = NotCalledF /\ ret2 = NotCalledF

\* Lines 45-50: the conversions, the assertion on the shapes, U = 0.
EnterLoops ==
    /\ frame.pc = "call"
    /\ IF Len(mass) # Len(pos)
       THEN /\ frame' = [frame EXCEPT !.pc = "failed"]
            /\ ret' = RaiseF("AssertionError")
       ELSE /\ frame' = LoopEntry
            /\ UNCHANGED ret
    /\ UNCHANGED <<partVars, inputVars, perm, called, ret2>>

\* Line 51: the outer for.
OuterLoop ==
    /\ frame.pc = "outer"
    /\ frame' = OuterStep(pos, frame)
    /\ ret' = IF frame'.pc = "done" THEN Return(frame'.U) ELSE ret
    /\ UNCHANGED <<partVars, inputVars, perm, called, ret2>>

\* Lines 52-54: the inner for and its body.
InnerLoop ==
    /\ frame.pc = "inner"
    /\ frame' = InnerStep(pos, mass, G, frame)
    /\ UNCHANGED <<partVars, inputVars, perm, called, ret, ret2>>

NextLoop == EnterLoops \/ OuterLoop \/ InnerLoop

SpecLoop == InitLoop /\ [][NextLoop]_vars

\* The unordered pairs of N particles, each as (i, j) with i < j.
AllPairs(N) == {<<a, b>> : a \in 0 .. (N - 1), b \in 0 .. (N - 1)} \ 
               {<<a, b>> \in (0 .. (N - 1)) \X (0 .. (N - 1)) : a >= b}

VisitedSet == {frame.visited[x] : x \in DOMAIN frame.visited}

\* No pair has been accumulated twice, and only pairs i < j inside the array.
PairsSafe ==
    /\ \A x \in DOMAIN frame.visited : \A y \in DOMAIN frame.visited :
           x # y => frame.visited[x] # frame.visited[y]
    /\ VisitedSet \subseteq AllPairs(Len(pos))

\* At the return every unordered pair has been accumulated.
PairsComplete ==
    frame.pc = "done" =>
        /\ VisitedSet = AllPairs(Len(pos))
        /\ 2 * Len(frame.visited) = Len(pos) * (Len(pos) - 1)
        /\ ret = Return(frame.U)
        /\ Len(pos) <= 1 => (frame.visited = <<>> /\ ret = Return(Zero))

\* The step-by-step run and the operator compute_potential_energy agree.
LoopAgreesWithOperator ==
    frame.pc \in {"done", "failed"} => ret = compute_potential_energy(pos, mass, G)

\* The number of steps the call can still take is bounded by Rank: a call that
\* has not returned or failed can always take a step (the guards of EnterLoops,
\* OuterLoop and InnerLoop are the three running values of pc), and every
\* step lowers Rank, which is never negative.
Rank(f, N) ==
    IF f.pc = "call" THEN (N + 2) * (N + 2)
    ELSE IF f.pc = "outer" THEN (N + 1 - f.i) * (N + 2)
    ELSE IF f.pc = "inner" THEN (N - f.i) * (N + 2) + (N + 1 - f.j)
    ELSE 0

Running == frame.pc \in {"call", "outer", "inner"}

\* C9 (pair enumeration): for every N >= 0 the double loop terminates (each
\* step lowers a rank that is never negative, and the call is running, returned
\* or failed); it accumulates a contribution only for pairs (i, j) with
\* 0 <= i < j < N, never the same pair twice (so never i = j and never both
\* (i, j) and (j, i)), and at the return each such pair has been accumulated
\* exactly once; with N = 0 or N = 1 no pair is visited and the result is 0.
C9_PairEnumeration ==
    /\ [](PairsSafe /\ PairsComplete)
    /\ [](Rank(frame, Len(pos)) >= 0 /\ (Running \/ frame.pc \in {"done", "failed"}))
    /\ [][Rank(frame', Len(pos)) < Rank(frame, Len(pos))]_vars

C9_Witness ==
    /\ frame.pc = "done"
    /\ Len(pos) = 3
    /\ frame.visited = << <<0, 1>>, <<0, 2>>, <<1, 2>> >>
    /\ ret.st = "ok"

----------------------------------------------------------------------------
(* SpecPot: compute_potential_energy on an input and on a reordering of it. *)

\* G scales every pair term alike, so one value of G is reordered here.
InitPot ==
    /\ PartIdle
    /\ \E N \in 0 .. MaxN :
           /\ pos \in [1 .. N -> PosSet]
           /\ mass \in [1 .. N -> MassSet]
    /\ G = 2
    /\ vel = <<>> /\ perm = <<>>
    /\ frame = IdleFrame
    /\ called = "none"
    /\ ret = NotCalledF /\ ret2 = NotCalledF

\* compute_potential_energy(pos, mass, G) on the input as given.
CallOriginal ==
    /\ called = "none"
    /\ ret' = compute_potential_energy(pos, mass, G)
    /\ called' = "potential"
    /\ UNCHANGED <<partVars, inputVars, perm, frame, ret2>>

\* The same call with positions and masses reordered by one permutation of
\* the particles.
CallPermuted ==
    /\ called = "potential"
    /\ \E f \in Perms(Len(pos)) :
           /\ perm' = f
           /\ ret2' = compute_potential_energy(Permuted(pos, f), Permuted(mass, f), G)
    /\ called' = "permuted"
    /\ UNCHANGED <<partVars, inputVars, frame, ret>>

NextPot == CallOriginal \/ CallPermuted

SpecPot == InitPot /\ [][NextPot]_vars

\* C8 (pairwise symmetry): reordering positions and masses by the same
\* permutation does not change what compute_potential_energy returns (finite
\* values compared exactly, rounding left aside; an infinite or nan result
\* stays the same special value).
C8_PairwiseSymmetry ==
    called = "permuted" => (ret.st = "ok" /\ ret2 = ret)

C8_Witness ==
    /\ called = "permuted"
    /\ Len(pos) = 3
    /\ perm = <<2, 3, 1>>
    /\ Permuted(mass, perm) # mass
    /\ Permuted(pos, perm) # pos
    /\ IsFinite(ret.val) /\ ret.val.n < 0
    /\ ret2 = ret

----------------------------------------------------------------------------
(* SpecKin: compute_kinetic_energy. *)

InitKin ==
    /\ PartIdle
    /\ vel \in SeqsUpTo(VelSet, MaxN)
    /\ mass \in SeqsUpTo(SignedMassSet, MaxN)
    /\ pos = <<>> /\ G = 1 /\ perm = <<>>
    /\ frame = IdleFrame
    /\ called = "none"
    /\ ret = NotCalledF /\ ret2 = NotCalledF

CallKinetic ==
    /\ called = "none"
    /\ ret' = compute_kinetic_energy(vel, mass)
    /\ called' = "kinetic"
    /\ UNCHANGED <<partVars, inputVars, perm, frame, ret2>>

NextKin == CallKinetic

SpecKin == InitKin /\ [][NextKin]_vars

NonNegativeMasses == \A x \in DOMAIN mass : mass[x] >= 0

\* Particle x (of arrays v, m) has zero mass or a zero velocity vector.
AtRest(v, m, x) == m[x] = 0 \/ \A c \in DOMAIN v[x] : v[x][c] = 0

----------------------------------------------------------------------------
(* SpecEnergy: compute_energy and compute_potential_energy on the same input. *)

InitEnergy ==
    /\ PartIdle
    /\ pos \in SeqsUpTo(PosSet, MaxLen)
    /\ vel \in SeqsUpTo(VelSet, MaxLen)
    /\ mass \in SeqsUpTo(MassSet, MaxLen)
    /\ G \in GSet
    /\ perm = <<>>
    /\ frame = IdleFrame
    /\ called = "none"
    /\ ret = NotCalledF /\ ret2 = NotCalledF

CallEnergy ==
    /\ called = "none"
    /\ ret' = compute_energy(pos, vel, mass, G)
    /\ called' = "energy"
    /\ UNCHANGED <<partVars, inputVars, perm, frame, ret2>>

CallPotential ==
    /\ called = "none"
    /\ ret' = compute_potential_energy(pos, mass, G)
    /\ called' = "potential"
    /\ UNCHANGED <<partVars, inputVars, perm, frame, ret2>>

NextEnergy == CallEnergy \/ CallPotential

SpecEnergy == InitEnergy /\ [][NextEnergy]_vars

SameLengths == Len(pos) = Len(vel) /\ Len(vel) = Len(mass)

\* C6 (total energy is all-or-nothing): compute_energy returns a value exactly
\* when len(pos) = len(vel) = len(mass), and the value is then
\* compute_potential_energy(pos, mass, G) + compute_kinetic_energy(vel, mass);
\* when two of the lengths differ the call fails on the shape assertion and
\* returns nothing.
C6_EnergyAllOrNothing ==
    called = "energy" =>
        /\ ret.st = "ok" <=> SameLengths
        /\ SameLengths =>
              ret = Return(FAdd(compute_potential_energy(pos, mass, G).val,
                                compute_kinetic_energy(vel, mass).val))
        /\ ~SameLengths => ret = RaiseF("AssertionError")
        /\ (/\ pos = << <<0, 0>>, <<3, 0>> >>
            /\ mass = <<1, 2>>
            /\ vel = << <<1, -2>>, <<0, 0>> >>
            /\ G = 1) => ret = Return(Fin(11, 6))

C6_Witness ==
    /\ called = "energy"
    /\ Len(pos) = 2 /\ Len(mass) = 2 /\ Len(vel) = 1
    /\ ret = RaiseF("AssertionError")

\* Some pair i < j of particles has r_ij == 0.
Coincident ==
    \E a \in DOMAIN pos : \E b \in DOMAIN pos :
        a < b /\ IsZero(Distance(pos[a], pos[b]))

====
